---- MODULE Spec2Model ----
(***************************************************************************)
(* Model of abipy/scripts/abips.py: the command-line driver that lists,    *)
(* installs and shows pseudopotential repositories kept under a root       *)
(* directory.  One run of the script is one pass from main to "done" or    *)
(* "crashed"; the root directory persists from one run to the next.        *)
(* The repository class (abipy.flowtk.psrepos) is imported by the script:  *)
(* its operations are modelled from their documented contract.             *)
(***************************************************************************)
EXTENDS Integers, Sequences, FiniteSets, TLC

\* Number of descriptors in the registry (ids 1..NumRepos).
NumRepos == 3
\* Longest id list given on the command line.
MaxIds == 2

VARIABLES
    rootExists,   \* the root directory exists
    root,         \* per registered directory name: "absent", "partial", "full"
    corrupt,      \* installed repositories holding a file with a wrong digest
    junk,         \* a directory under root whose name encodes no descriptor
    tmp,          \* descriptors with a temporary unpack area outside root
    pc,           \* position of the running script
    options,      \* parsed command line
    repos,        \* `repos` of the running get/show command
    i,            \* index of its loop over `repos`
    lrepos,       \* `repos` of abips_list
    k,            \* index of the validation loop of abips_list
    exc_list,     \* `exc_list` of abips_list
    cont,         \* what the caller of abips_list returns afterwards
    ret,          \* value returned to sys.exit
    exc,          \* the uncaught exception of a crashed run
    listRet,      \* value returned by abips_list in this run (-1: not returned)
    installCalls, \* per descriptor: install calls made in this run
    reinstalled,  \* descriptors given to install while already installed
    nvalid,       \* per descriptor: validate_checksums calls made in this run
    raised,       \* descriptors whose validate_checksums raised in this run
    answer,       \* what the confirmation prompt produced in this run
    rootAtStart,  \* root as it was when the run started
    gpAbsent,     \* descriptors whose table was requested while not installed
    halfSeen      \* a listing of the registry looked at a half-written directory

disk == <<rootExists, root, corrupt, junk, tmp>>
run == <<pc, options, repos, i, lrepos, k, exc_list, cont, ret, exc, listRet>>
hist == <<installCalls, reinstalled, nvalid, raised, answer, rootAtStart, gpAbsent>>
vars == <<disk, run, hist, halfSeen>>

----------------------------------------------------------------------------
\* The registry and the repository class.

IDs == 1..NumRepos

ALL_REPOS == [n \in 1..NumRepos |-> n]

isnc(r) == r % 2 = 1

ispaw(r) == ~isnc(r)

Range(s) == {s[n] : n \in DOMAIN s}

NoExc == [type |-> "none", arg |-> 0]

\* An id that no descriptor of the registry carries.
UnknownId == NumRepos + 1

IdLists == UNION {[1..n -> 1..UnknownId] : n \in 1..MaxIds}

\* Ids of `ids` that are not registered, by position.
BadPositions(ids) == {n \in DOMAIN ids : ids[n] \notin IDs}

FirstBad(ids) == ids[CHOOSE n \in BadPositions(ids) : \A m \in BadPositions(ids) : n <= m]

\* One descriptor per requested id, in the order of the request, or the
\* failure naming the first id that is not registered.
repos_from_id_list(ids) ==
    IF BadPositions(ids) = {}
    THEN [ok |-> TRUE, repos |-> [n \in DOMAIN ids |-> ALL_REPOS[ids[n]]], arg |-> 0]
    ELSE [ok |-> FALSE, repos |-> <<>>, arg |-> FirstBad(ids)]

is_installed(r) == root[r] = "full"

\* validate_checksums raises for a bundle that is absent or holds a bad file.
validate_raises(r) == root[r] # "full" \/ r \in corrupt

\* get_pseudos raises NotInstalledError when the bundle is absent.
get_pseudos_raises(r) == root[r] # "full"

RECURSIVE SortedSeq(_)
SortedSeq(S) ==
    IF S = {} THEN <<>>
    ELSE LET m == CHOOSE x \in S : \A y \in S : x <= y
         IN <<m>> \o SortedSeq(S \ {m})

ZeroCount == [r \in IDs |-> 0]

----------------------------------------------------------------------------
\* The confirmation prompt.

EOF == <<"EOF">>

Answers == {<<>>, <<"y">>, <<"Y">>, <<"n">>, <<"N">>, <<"n", "o">>, <<"N", "O">>,
            <<" ", "n", "o", " ">>, EOF}

Lower(c) == CASE c = "N" -> "n" [] c = "O" -> "o" [] c = "Y" -> "y" [] OTHER -> c

LowerStr(s) == [n \in DOMAIN s |-> Lower(s[n])]

RECURSIVE Strip(_)
Strip(s) ==
    IF s = <<>> THEN s
    ELSE IF Head(s) = " " THEN Strip(Tail(s))
    ELSE IF s[Len(s)] = " " THEN Strip(SubSeq(s, 1, Len(s) - 1))
    ELSE s

user_wants_to_abort(a) ==
    IF a = EOF THEN FALSE
    ELSE Strip(LowerStr(a)) \in {<<"n">>, <<"n", "o">>}

\* No prompt was shown.
NoAnswer == <<"none">>

----------------------------------------------------------------------------
\* No process is running.
NoOptions == [command |-> "none", verbose |-> FALSE, yes |-> FALSE,
              checksums |-> FALSE, id_list |-> <<>>]

Init ==
    /\ rootExists = FALSE
    /\ root = [r \in IDs |-> "absent"]
    /\ corrupt = {}
    /\ junk = FALSE
    /\ tmp = {}
    /\ pc = "idle"
    /\ options = NoOptions
    /\ repos = <<>>
    /\ i = 1
    /\ lrepos = <<>>
    /\ k = 1
    /\ exc_list = <<>>
    /\ cont = "top"
    /\ ret = 0
    /\ exc = NoExc
    /\ listRet = -1
    /\ installCalls = ZeroCount
    /\ reinstalled = {}
    /\ nvalid = ZeroCount
    /\ raised = {}
    /\ answer = NoAnswer
    /\ rootAtStart = root
    /\ gpAbsent = {}
    /\ halfSeen = FALSE

Commands == {"list", "nc_get", "paw_get", "get_byid", "show"}

OptionSets ==
    {[command |-> c, verbose |-> v, yes |-> y, checksums |-> s, id_list |-> l] :
        c \in Commands, v \in BOOLEAN, y \in BOOLEAN, s \in BOOLEAN,
        l \in IdLists \cup {<<>>}}

\* argparse: id_list belongs to get_byid and show only, with one id at least.
ValidOptions(o) == (o.id_list # <<>>) <=> (o.command \in {"get_byid", "show"})

\* A fresh process: parse the command line and dispatch on the sub-command.
main ==
    /\ pc = "idle"
    /\ \E o \in OptionSets :
        /\ ValidOptions(o)
        /\ options' = o
        /\ pc' = o.command
    /\ rootAtStart' = root
    /\ UNCHANGED <<repos, i, lrepos, k, exc_list, cont, ret, exc, listRet>>
    /\ UNCHANGED <<installCalls, reinstalled, nvalid, raised, answer, gpAbsent>>
    /\ UNCHANGED <<disk, halfSeen>>

\* `sys.exit(main())`: the process ends, and with it everything but the disk.
exit ==
    /\ pc \in {"done", "crashed"}
    /\ pc' = "idle"
    /\ options' = NoOptions
    /\ repos' = <<>>
    /\ i' = 1
    /\ lrepos' = <<>>
    /\ k' = 1
    /\ exc_list' = <<>>
    /\ cont' = "top"
    /\ ret' = 0
    /\ exc' = NoExc
    /\ listRet' = -1
    /\ installCalls' = ZeroCount
    /\ reinstalled' = {}
    /\ nvalid' = ZeroCount
    /\ raised' = {}
    /\ answer' = NoAnswer
    /\ rootAtStart' = root
    /\ gpAbsent' = {}
    /\ UNCHANGED <<disk, halfSeen>>

\* get_repos_root creates the root directory when it is missing.
get_repos_root == rootExists' = TRUE

Crash(type, arg) ==
    /\ pc' = "crashed"
    /\ exc' = [type |-> type, arg |-> arg]
    /\ ret' = 1

Return(v) ==
    /\ pc' = "done"
    /\ ret' = v
    /\ exc' = exc

\* abips_list returns v; its caller returns v itself (the list command), or
\* 0 or 1 whatever v is (the get commands, lines 105-106, 142-143).
list_return(v) ==
    /\ listRet' = v
    /\ Return(IF cont = "top" THEN v ELSE IF cont = "ret0" THEN 0 ELSE 1)

----------------------------------------------------------------------------
\* abips_list, up to the checksum loop.

ListOutcome(dirs) ==
    IF dirs = {} /\ ~junk THEN "empty"
    ELSE IF junk THEN "unrecognized"
    ELSE IF options.verbose /\ \E r \in dirs : isnc(r) /\ get_pseudos_raises(r)
    THEN "notinstalled"
    ELSE IF ~options.checksums THEN "nochecks"
    ELSE "validate"

abips_list ==
    /\ pc = "list"
    /\ get_repos_root
    /\ LET dirs == {r \in IDs : root[r] # "absent"}
           out == ListOutcome(dirs)
           bad == {r \in dirs : isnc(r) /\ get_pseudos_raises(r)}
       IN /\ lrepos' = IF out \in {"empty", "unrecognized"} THEN lrepos
                       ELSE SortedSeq(dirs)
          /\ gpAbsent' = IF out = "notinstalled"
                         THEN gpAbsent \cup {SortedSeq(bad)[1]} ELSE gpAbsent
          /\ CASE out = "empty" -> list_return(0)
               [] out = "unrecognized" ->
                    Crash("UnrecognizedDirectoryName", 0) /\ listRet' = listRet
               [] out = "notinstalled" ->
                    Crash("NotInstalledError", SortedSeq(bad)[1]) /\ listRet' = listRet
               [] out = "nochecks" -> list_return(0)
               [] out = "validate" ->
                    /\ pc' = "validate"
                    /\ UNCHANGED <<ret, exc, listRet>>
    /\ k' = 1
    /\ exc_list' = <<>>
    /\ UNCHANGED <<root, corrupt, junk, tmp, options, repos, i, cont>>
    /\ UNCHANGED <<installCalls, reinstalled, nvalid, raised, answer, rootAtStart>>
    /\ UNCHANGED halfSeen

\* The same loop without the try/except: the first exception ends the run.
validate_checksums_failfast ==
    /\ pc = "validate"
    /\ k <= Len(lrepos)
    /\ LET r == lrepos[k]
       IN /\ nvalid' = [nvalid EXCEPT ![r] = @ + 1]
          /\ IF validate_raises(r)
             THEN /\ raised' = raised \cup {r}
                  /\ Crash("ChecksumError", r)
                  /\ UNCHANGED <<k, exc_list>>
             ELSE /\ k' = k + 1
                  /\ UNCHANGED <<raised, exc_list, pc, exc, ret>>
    /\ UNCHANGED <<disk, options, repos, i, lrepos, cont, listRet>>
    /\ UNCHANGED <<installCalls, reinstalled, answer, rootAtStart, gpAbsent, halfSeen>>

\* One iteration of the checksum loop: an exception is appended to exc_list.
validate_checksums ==
    /\ pc = "validate"
    /\ k <= Len(lrepos)
    /\ LET r == lrepos[k]
       IN /\ nvalid' = [nvalid EXCEPT ![r] = @ + 1]
          /\ IF validate_raises(r)
             THEN /\ exc_list' = Append(exc_list, r)
                  /\ raised' = raised \cup {r}
             ELSE UNCHANGED <<exc_list, raised>>
    /\ k' = k + 1
    /\ UNCHANGED <<disk, pc, options, repos, i, lrepos, cont, ret, exc, listRet>>
    /\ UNCHANGED <<installCalls, reinstalled, answer, rootAtStart, gpAbsent, halfSeen>>

\* After the loop: print the exceptions and return their number.
abips_list_end ==
    /\ pc = "validate"
    /\ k > Len(lrepos)
    /\ list_return(Len(exc_list))
    /\ UNCHANGED <<disk, options, repos, i, lrepos, k, exc_list, cont>>
    /\ UNCHANGED <<hist, halfSeen>>

----------------------------------------------------------------------------
\* The get commands, up to the confirmation prompt.

\* With nothing to install the command returns; otherwise it prompts unless
\* --yes was given.
Selected(sel) ==
    /\ repos' = sel
    /\ pc' = IF options.yes THEN "install" ELSE "prompt"
    /\ UNCHANGED <<ret, exc, cont>>

abips_nc_get ==
    /\ pc = "nc_get"
    /\ get_repos_root
    /\ LET sel == SelectSeq(ALL_REPOS, LAMBDA r : isnc(r) /\ ~is_installed(r))
       IN IF sel = <<>>
          THEN Return(0) /\ UNCHANGED <<repos, cont>>
          ELSE Selected(sel)
    /\ UNCHANGED <<root, corrupt, junk, tmp, options, i, lrepos, k, exc_list, listRet>>
    /\ UNCHANGED <<hist, halfSeen>>

abips_paw_get ==
    /\ pc = "paw_get"
    /\ get_repos_root
    /\ LET sel == SelectSeq(ALL_REPOS, LAMBDA r : ispaw(r) /\ ~is_installed(r))
       IN IF sel = <<>>
          THEN Return(0) /\ UNCHANGED <<repos, cont>>
          ELSE Selected(sel)
    /\ UNCHANGED <<root, corrupt, junk, tmp, options, i, lrepos, k, exc_list, listRet>>
    /\ UNCHANGED <<hist, halfSeen>>

\* The ids are resolved one by one: the descriptors that precede an
\* unregistered id are kept and installed.
abips_get_byid_lazy ==
    /\ pc = "get_byid"
    /\ get_repos_root
    /\ LET ids == options.id_list
           bad == BadPositions(ids)
           upto == IF bad = {} THEN Len(ids)
                   ELSE (CHOOSE n \in bad : \A m \in bad : n <= m) - 1
           res == [n \in 1..upto |-> ALL_REPOS[ids[n]]]
           sel == SelectSeq(res, LAMBDA r : ~is_installed(r))
       IN IF sel = <<>>
          THEN IF bad # {}
               THEN Crash("UnknownRepositoryId", FirstBad(ids)) /\ UNCHANGED <<repos, cont>>
               ELSE /\ pc' = "list"
                    /\ cont' = "ret1"
                    /\ UNCHANGED <<repos, ret, exc>>
          ELSE Selected(sel)
    /\ UNCHANGED <<root, corrupt, junk, tmp, options, i, lrepos, k, exc_list, listRet>>
    /\ UNCHANGED <<hist, halfSeen>>

abips_get_byid ==
    /\ pc = "get_byid"
    /\ get_repos_root
    /\ LET res == repos_from_id_list(options.id_list)
           sel == SelectSeq(res.repos, LAMBDA r : ~is_installed(r))
       IN IF ~res.ok
          THEN Crash("UnknownRepositoryId", res.arg) /\ UNCHANGED <<repos, cont>>
          ELSE IF sel = <<>>
          THEN /\ pc' = "list"
               /\ cont' = "ret1"
               /\ UNCHANGED <<repos, ret, exc>>
          ELSE Selected(sel)
    /\ UNCHANGED <<root, corrupt, junk, tmp, options, i, lrepos, k, exc_list, listRet>>
    /\ UNCHANGED <<hist, halfSeen>>

\* `if not options.yes and user_wants_to_abort(): return 2`
confirm ==
    /\ pc = "prompt"
    /\ \E a \in Answers :
        /\ answer' = a
        /\ IF user_wants_to_abort(a)
           THEN Return(2)
           ELSE pc' = "install" /\ UNCHANGED <<ret, exc>>
    /\ UNCHANGED <<disk, options, repos, i, lrepos, k, exc_list, cont, listRet>>
    /\ UNCHANGED <<installCalls, reinstalled, nvalid, raised, rootAtStart, gpAbsent>>
    /\ UNCHANGED halfSeen

----------------------------------------------------------------------------
\* The install loop of the get commands: `for repo in repos: repo.install(...)`.

\* The loop stops after its first iteration.
LoopNextBreak(n, len) == "list"

\* Where the script goes once install returned for repos[n]: on to the next
\* descriptor, or, after the last one, to abips_list.
LoopNext(n, len) == IF n < len THEN "install" ELSE "list"

\* install unpacks straight into the descriptor's directory under root.
UnpackTargetInPlace(r) ==
    /\ root' = [root EXCEPT ![r] = "partial"]
    /\ tmp' = tmp

\* install downloads and unpacks into a temporary location outside root.
UnpackTarget(r) ==
    /\ tmp' = tmp \cup {r}
    /\ root' = root

\* install is called for repos[i]; the fetch succeeds and unpacking starts.
install_begin ==
    /\ pc = "install"
    /\ LET r == repos[i]
       IN /\ installCalls' = [installCalls EXCEPT ![r] = @ + 1]
          /\ reinstalled' = IF is_installed(r) THEN reinstalled \cup {r} ELSE reinstalled
          /\ UnpackTarget(r)
    /\ pc' = "unpack"
    /\ UNCHANGED <<rootExists, corrupt, junk>>
    /\ UNCHANGED <<options, repos, i, lrepos, k, exc_list, cont, ret, exc, listRet>>
    /\ UNCHANGED <<nvalid, raised, answer, rootAtStart, gpAbsent, halfSeen>>

\* install is called for repos[i] and the fetch fails: nothing is written,
\* and the exception leaves the loop and the script.
install_fetch_fail ==
    /\ pc = "install"
    /\ LET r == repos[i]
       IN /\ installCalls' = [installCalls EXCEPT ![r] = @ + 1]
          /\ reinstalled' = IF is_installed(r) THEN reinstalled \cup {r} ELSE reinstalled
          /\ Crash("NetworkError", r)
    /\ UNCHANGED <<disk, options, repos, i, lrepos, k, exc_list, cont, listRet>>
    /\ UNCHANGED <<nvalid, raised, answer, rootAtStart, gpAbsent, halfSeen>>

\* The unpack fails or is interrupted: the temporary area is discarded.
install_unpack_fail ==
    /\ pc = "unpack"
    /\ LET r == repos[i]
       IN /\ tmp' = tmp \ {r}
          /\ \E e \in {"ArchiveCorruptError", "FilesystemError"} : Crash(e, r)
    /\ UNCHANGED <<rootExists, root, corrupt, junk>>
    /\ UNCHANGED <<options, repos, i, lrepos, k, exc_list, cont, listRet>>
    /\ UNCHANGED <<hist, halfSeen>>

\* The unpack completes: the directory is renamed into place and install
\* returns; the loop goes on.
install_rename ==
    /\ pc = "unpack"
    /\ LET r == repos[i]
       IN /\ root' = [root EXCEPT ![r] = "full"]
          /\ corrupt' = corrupt \ {r}
          /\ tmp' = tmp \ {r}
    /\ pc' = LoopNext(i, Len(repos))
    /\ i' = i + 1
    /\ cont' = "ret0"
    /\ UNCHANGED <<rootExists, junk>>
    /\ UNCHANGED <<options, repos, lrepos, k, exc_list, ret, exc, listRet>>
    /\ UNCHANGED <<hist, halfSeen>>

----------------------------------------------------------------------------
\* abips_show.

abips_show ==
    /\ pc = "show"
    /\ get_repos_root
    /\ LET res == repos_from_id_list(options.id_list)
           sel == SelectSeq(res.repos, LAMBDA r : ~is_installed(r))
       IN IF ~res.ok
          THEN Crash("UnknownRepositoryId", res.arg) /\ UNCHANGED <<repos, cont>>
          ELSE IF sel = <<>>
          THEN /\ pc' = "list"
               /\ cont' = "ret1"
               /\ UNCHANGED <<repos, ret, exc>>
          ELSE /\ repos' = sel
               /\ pc' = "show_loop"
               /\ UNCHANGED <<ret, exc, cont>>
    /\ UNCHANGED <<root, corrupt, junk, tmp, options, i, lrepos, k, exc_list, listRet>>
    /\ UNCHANGED <<hist, halfSeen>>

\* `for repo in repos: print(repo); pseudos = repo.get_pseudos(...)`, return 0.
abips_show_loop ==
    /\ pc = "show_loop"
    /\ IF i > Len(repos)
       THEN Return(0) /\ UNCHANGED <<i, gpAbsent>>
       ELSE IF get_pseudos_raises(repos[i])
       THEN /\ gpAbsent' = gpAbsent \cup {repos[i]}
            /\ Crash("NotInstalledError", repos[i])
            /\ i' = i
       ELSE /\ i' = i + 1
            /\ UNCHANGED <<pc, ret, exc, gpAbsent>>
    /\ UNCHANGED <<disk, options, repos, lrepos, k, exc_list, cont, listRet>>
    /\ UNCHANGED <<installCalls, reinstalled, nvalid, raised, answer, rootAtStart>>
    /\ UNCHANGED halfSeen

----------------------------------------------------------------------------
\* What happens to the root directory outside the running script.

\* abips_avail run from another shell: is_installed over the whole registry.
abips_avail ==
    /\ get_repos_root
    /\ halfSeen' = (halfSeen \/ \E r \in IDs : root[r] = "partial")
    /\ UNCHANGED <<root, corrupt, junk, tmp, run, hist>>

\* Between two runs someone creates, or removes, an unrelated directory
\* under root.
unrelated_dir ==
    /\ rootExists
    /\ pc = "idle"
    /\ junk' = ~junk
    /\ UNCHANGED <<rootExists, root, corrupt, tmp, run, hist, halfSeen>>

\* A file of an installed bundle is damaged, between two runs or while the
\* checksums are being validated.
corrupt_file ==
    /\ pc \in {"idle", "validate"}
    /\ \E r \in IDs :
        /\ root[r] = "full"
        /\ r \notin corrupt
        /\ corrupt' = corrupt \cup {r}
    /\ UNCHANGED <<rootExists, root, junk, tmp, run, hist, halfSeen>>

----------------------------------------------------------------------------
Next ==
    \/ main
    \/ exit
    \/ abips_list
    \/ validate_checksums
    \/ abips_list_end
    \/ abips_nc_get
    \/ abips_paw_get
    \/ abips_get_byid
    \/ confirm
    \/ install_begin
    \/ install_fetch_fail
    \/ install_unpack_fail
    \/ install_rename
    \/ abips_show
    \/ abips_show_loop
    \/ abips_avail
    \/ unrelated_dir
    \/ corrupt_file

Spec == Init /\ [][Next]_vars

----------------------------------------------------------------------------
\* Properties.

GetCommands == {"nc_get", "paw_get", "get_byid"}

InstallErrors == {"NetworkError", "ArchiveCorruptError", "FilesystemError"}

Installed(rt) == {r \in IDs : rt[r] = "full"}

Finished == pc \in {"done", "crashed"}

\* C1: with the checksums option, abips_list validates every repository
\* found under the root exactly once; an exception raised by one validation
\* is collected, the remaining repositories are still validated, and the
\* value abips_list returns is the number of repositories whose validation
\* raised.
C1_ValidateAll ==
    /\ \A r \in IDs : nvalid[r] <= 1
    /\ Range(exc_list) = raised
    /\ Len(exc_list) = Cardinality(raised)
    /\ raised # {} => pc \in {"validate", "done"}
    /\ pc = "validate" =>
          /\ Range(lrepos) = {r \in IDs : root[r] # "absent"}
          /\ \A n \in DOMAIN lrepos : nvalid[lrepos[n]] = IF n < k THEN 1 ELSE 0
    /\ (listRet # -1 /\ options.checksums /\ lrepos # <<>>) =>
          /\ Range(lrepos) = {r \in IDs : root[r] # "absent"}
          /\ \A n \in DOMAIN lrepos : nvalid[lrepos[n]] = 1
          /\ listRet = Cardinality(raised)

\* The first repository's validation raised, the second was validated all
\* the same, and the list command returned the number of failures.
C1_Witness ==
    /\ options.command = "list"
    /\ pc = "done"
    /\ Len(lrepos) >= 2
    /\ lrepos[1] \in raised
    /\ nvalid[lrepos[2]] = 1
    /\ lrepos[2] \notin raised
    /\ ret = 1

\* C3: an id list holding an unregistered id makes get_byid and show fail
\* with UnknownRepositoryId naming an unregistered id of the list, with no
\* partial result: install is never called, not even for valid ids that
\* come first, and the installed set is unchanged.
C3_UnknownIdInstallsNothing ==
    (/\ options.command \in {"get_byid", "show"}
     /\ pc \notin {"get_byid", "show"}
     /\ Range(options.id_list) \ IDs # {})
    => /\ pc = "crashed"
       /\ exc.type = "UnknownRepositoryId"
       /\ exc.arg \in Range(options.id_list) \ IDs
       /\ repos = <<>>
       /\ installCalls = ZeroCount
       /\ Installed(root) = Installed(rootAtStart)

\* get_byid was given a valid, not yet installed id followed by an unknown
\* one, and failed.
C3_Witness ==
    /\ options.command = "get_byid"
    /\ pc = "crashed"
    /\ exc.type = "UnknownRepositoryId"
    /\ Len(options.id_list) = 2
    /\ options.id_list[1] \in IDs
    /\ ~is_installed(options.id_list[1])
    /\ options.id_list[2] \notin IDs

\* C4: a descriptor is not installed before install and is installed as soon
\* as install has returned; when a get command returns 0 after its install
\* loop, every selected descriptor is installed and no other descriptor has
\* changed installation state.
C4_InstalledAfterInstall ==
    /\ pc \in {"install", "unpack"} =>
          /\ \A n \in 1..(i - 1) : is_installed(repos[n])
          /\ \A r \in Range(repos) : rootAtStart[r] = "absent"
    /\ (/\ options.command \in GetCommands
        /\ pc = "done"
        /\ ret = 0
        /\ repos # <<>>)
       => /\ \A r \in Range(repos) : rootAtStart[r] = "absent" /\ is_installed(r)
          /\ \A r \in IDs \ Range(repos) : root[r] = rootAtStart[r]

\* nc_get, started on an empty root, installed two descriptors and
\* returned 0, the rest of the registry staying absent.
C4_Witness ==
    /\ options.command = "nc_get"
    /\ pc = "done"
    /\ ret = 0
    /\ Len(repos) >= 2
    /\ Installed(rootAtStart) = {}
    /\ Installed(root) = Range(repos)
    /\ Installed(root) # IDs

\* C5: a descriptor's directory under root is absent or fully populated in
\* every state, also while an install is unpacking and after it failed; no
\* listing sees a half-written directory; a failed install leaves the
\* descriptor not installed, with no residue.
C5_InstallAtomic ==
    /\ \A r \in IDs : root[r] \in {"absent", "full"}
    /\ ~halfSeen
    /\ (pc = "unpack" /\ repos[i] \notin reinstalled) => root[repos[i]] = "absent"
    /\ (pc = "crashed" /\ exc.type \in InstallErrors) =>
          /\ tmp = {}
          /\ exc.arg \notin reinstalled => root[exc.arg] = "absent"

\* An install failed in the middle of the unpack, beside an installed bundle.
C5_Witness ==
    /\ pc = "crashed"
    /\ exc.type = "ArchiveCorruptError"
    /\ root[exc.arg] = "absent"
    /\ Installed(root) # {}

\* Answers by which the user declines, and answers by which the user agrees
\* ([Y/n]: an empty line takes the default).
Refusals == {<<"n">>, <<"N">>, <<"n", "o">>, <<"N", "O">>, <<" ", "n", "o", " ">>}

Consents == {<<>>, <<"y">>, <<"Y">>}

\* C2: without --yes, install is called only after the user consented at the
\* prompt; when the user refused or the prompt produced no answer (end of
\* input), no install call is made and the installed set is unchanged.
C2_InstallOnlyAfterConsent ==
    (options.command \in GetCommands /\ ~options.yes) =>
        /\ installCalls # ZeroCount => answer \in Consents
        /\ answer \in Refusals \cup {EOF} =>
              /\ installCalls = ZeroCount
              /\ Installed(root) = Installed(rootAtStart)

\* C6: in the install loop of a get command a failing install does not abort
\* the run: install is still called for every other selected descriptor and
\* the failures are reported together at the end.
C6_InstallLoopContinues ==
    (options.command \in GetCommands /\ Finished /\ installCalls # ZeroCount) =>
        /\ exc.type \notin InstallErrors
        /\ \A r \in Range(repos) : installCalls[r] >= 1

\* C7: abips_list filters the entries of the root before reconstructing
\* descriptors, so a root holding installed repositories and an unrelated
\* directory is still listed, never failing with UnrecognizedDirectoryName.
C7_UnrelatedDirTolerated ==
    (options.command = "list" /\ Finished /\ junk /\ Installed(root) # {}) =>
        /\ pc = "done"
        /\ exc.type # "UnrecognizedDirectoryName"
        /\ Range(lrepos) = Installed(root)

\* C8: when the checksum validation of a run collected errors, the run does
\* not crash and its return value is not zero, for abips_list and for the
\* get commands that call it after installing.
C8_ErrorsGiveNonZero ==
    (Finished /\ exc_list # <<>>) => (pc = "done" /\ ret # 0)

\* C9: abips_show requests the table only of descriptors that are installed,
\* and never installs anything.
C9_ShowOnlyInstalled ==
    options.command = "show" =>
        /\ gpAbsent = {}
        /\ installCalls = ZeroCount
        /\ Installed(root) = Installed(rootAtStart)

\* C10: within one run of a get command install is called at most once per
\* descriptor and never for a descriptor already installed, also for id
\* lists that repeat an id; when every requested descriptor is installed
\* already, get_byid calls install zero times and returns 1.
C10_InstallAtMostOnce ==
    options.command \in GetCommands =>
        /\ \A r \in IDs : installCalls[r] <= 1
        /\ reinstalled = {}
        /\ (/\ options.command = "get_byid"
            /\ pc = "done"
            /\ Range(options.id_list) \subseteq Installed(rootAtStart))
           => (installCalls = ZeroCount /\ ret = 1)

====
